---- MODULE Spec2Model ----
(***************************************************************************)
(* Model of github.com/lynn9388/merkletree, package binary (binary.go):    *)
(* the balanced-split Merkle hash tree, audit-path extraction and          *)
(* audit-path verification, over an explicit heap of byte buffers so that  *)
(* Go's slice aliasing and append semantics are part of the model.         *)
(*                                                                         *)
(* The hash function is modelled as a collision-free symbolic function:    *)
(* byte k of the digest of x is the term [d |-> x, i |-> k].  A raw data   *)
(* byte b is the term [d |-> <<>>, i |-> -(b + 1)].                        *)
(***************************************************************************)
EXTENDS Integers, Sequences, FiniteSets, TLC

VARIABLES
    mt,      \* the tree handle returned by New (a node id), NIL before New
    nodes,   \* the node graph: node id -> [Parent, Left, Right, Hash]
    heap,    \* the byte buffers: buffer id -> backing array
    blocks,  \* the argument New was called with
    ap,      \* the caller's *AuditPath variable
    err,     \* the error returned by the last GetAuditPath
    valid,   \* the outcome of the last IsValid: "true", "false", "panic"
    prov,    \* where the caller's AuditPath comes from
    last,    \* the last call made and its arguments
    procs,   \* the goroutines querying the tree: position and locals of each
    drawn,   \* what the last Pretty or PrettyString returned
    rp       \* the root package: the tree NewMerkleTree builds, the last proof

vars == <<mt, nodes, heap, blocks, ap, err, valid, prov, last, procs, drawn, rp>>

---------------------------------------------------------------------------
(* Bounds *)

MaxBlocks == 3      \* New is called with 0..MaxBlocks blocks
HashLen == 2        \* bytes in a digest (sha256.Size scaled down)
MaxForge == 2       \* entries in a caller-built AuditPath: 0..MaxForge
NumProcs == 2       \* goroutines querying one tree
MaxDrawn == 7       \* blocks of a tree that is rendered: 0..MaxDrawn

---------------------------------------------------------------------------
(* Values *)

left == 0
right == 1
NIL == 0

Raw(b) == [d |-> <<>>, i |-> 0 - b - 1]

\* the blocks the caller builds trees from: the empty block and another
BlockValues == {<<>>, <<Raw(1)>>}

Range(s) == {s[k] : k \in 1..Len(s)}

SeqsUpTo(S, n) == UNION {[1..m -> S] : m \in 0..n}

\* hash: sha256.Sum256(data), returned as the bytes of a fresh array
hash(data) == [k \in 1..HashLen |-> [d |-> data, i |-> k]]

---------------------------------------------------------------------------
(* Slices and the heap *)

NilSlice == [buf |-> 0, off |-> 0, len |-> 0, cap |-> 0]

\* the bytes a slice denotes
Bytes(h, s) == [k \in 1..s.len |-> h[s.buf][s.off + k]]

\* a fresh backing array holding b, and the slice b[:] over it
Alloc(h, b) ==
    [heap |-> Append(h, b),
     slice |-> [buf |-> Len(h) + 1, off |-> 0, len |-> Len(b), cap |-> Len(b)]]

GoAppendReversed(h, s, t) == [heap |-> h, bytes |-> t \o Bytes(h, s)]

\* append(s, t...): in place when t fits the capacity of s, otherwise the
\* result lives in a new array and the array of s is left alone
GoAppend(h, s, t) ==
    IF Len(t) = 0 THEN [heap |-> h, bytes |-> Bytes(h, s)]
    ELSE IF s.len + Len(t) <= s.cap
    THEN [heap |-> [h EXCEPT ![s.buf] =
                      [j \in 1..Len(@) |->
                         IF j > s.off + s.len /\ j <= s.off + s.len + Len(t)
                         THEN t[j - s.off - s.len] ELSE @[j]]],
          bytes |-> Bytes(h, s) \o t]
    ELSE [heap |-> h, bytes |-> Bytes(h, s) \o t]

---------------------------------------------------------------------------
(* New *)

RECURSIVE Exp2(_)
Exp2(e) == IF e <= 0 THEN 1 ELSE 2 * Exp2(e - 1)

\* math.Ceil(math.Log2(float64(n))) for n >= 1
CeilLog2(n) == CHOOSE e \in 0..n : Exp2(e) >= n /\ \A f \in 0..(e - 1) : Exp2(f) < n

SplitKHalf(n) == n \div 2

\* k := int(math.Exp2(math.Ceil(math.Log2(float64(n)) - 1)))
SplitK(n) == Exp2(CeilLog2(n) - 1)

EmptyNode == [Parent |-> NIL, Left |-> NIL, Right |-> NIL, Hash |-> NilSlice]

NewEmptyOfZeroByte == hash(<<Raw(0)>>)

\* the digest of the root New returns for no data: hash([]byte{})
NewEmpty == hash(<<>>)

\* subTree: st = [nodes, heap] is the store so far; the result adds the
\* subtree over data and names its root
RECURSIVE subTree(_, _)
subTree(data, st) ==
    LET n == Len(data) IN
    IF n = 1
    THEN LET al == Alloc(st.heap, hash(data[1]))
         IN  [nodes |-> Append(st.nodes, [EmptyNode EXCEPT !.Hash = al.slice]),
              heap |-> al.heap,
              root |-> Len(st.nodes) + 1]
    ELSE LET parent == Len(st.nodes) + 1
             k == SplitK(n)
             l == subTree(SubSeq(data, 1, k),
                          [nodes |-> Append(st.nodes, EmptyNode), heap |-> st.heap])
             r == subTree(SubSeq(data, k + 1, n), [nodes |-> l.nodes, heap |-> l.heap])
             cat == GoAppend(r.heap, r.nodes[l.root].Hash,
                             Bytes(r.heap, r.nodes[r.root].Hash))
             al == Alloc(cat.heap, hash(cat.bytes))
         IN  [nodes |-> [r.nodes EXCEPT
                           ![l.root].Parent = parent,
                           ![r.root].Parent = parent,
                           ![parent].Left = l.root,
                           ![parent].Right = r.root,
                           ![parent].Hash = al.slice],
              heap |-> al.heap,
              root |-> parent]

NewTree(data) ==
    IF Len(data) = 0
    THEN LET al == Alloc(<<>>, NewEmpty)
         IN  [nodes |-> <<[EmptyNode EXCEPT !.Hash = al.slice]>>,
              heap |-> al.heap, root |-> 1]
    ELSE subTree(data, [nodes |-> <<>>, heap |-> <<>>])

---------------------------------------------------------------------------
(* findLeaf, GetAuditPath *)

NilAP == [isnil |-> TRUE, Path |-> <<>>, Order |-> <<>>]
EmptyAP == [isnil |-> FALSE, Path |-> <<>>, Order |-> <<>>]

LeafMatchAnyNode(ns, h, n, target) == Bytes(h, ns[n].Hash) = target

\* mt.Left == nil && mt.Right == nil && bytes.Equal(mt.Hash, hash)
LeafMatch(ns, h, n, target) ==
    ns[n].Left = NIL /\ ns[n].Right = NIL /\ Bytes(h, ns[n].Hash) = target

RECURSIVE findLeafRightFirst(_, _, _, _)
findLeafRightFirst(ns, h, n, target) ==
    IF n = NIL THEN NIL
    ELSE IF LeafMatch(ns, h, n, target) THEN n
    ELSE LET leaf == findLeafRightFirst(ns, h, ns[n].Right, target)
         IN  IF leaf = NIL THEN findLeafRightFirst(ns, h, ns[n].Left, target) ELSE leaf

\* findLeaf: the first leaf with the hash target, left before right
RECURSIVE findLeaf(_, _, _, _)
findLeaf(ns, h, n, target) ==
    IF n = NIL THEN NIL
    ELSE IF LeafMatch(ns, h, n, target) THEN n
    ELSE LET leaf == findLeaf(ns, h, ns[n].Left, target)
         IN  IF leaf = NIL THEN findLeaf(ns, h, ns[n].Right, target) ELSE leaf

WalkStepSwapped(ns, node, a) ==
    IF ns[ns[node].Parent].Left = node
    THEN [a EXCEPT !.Path = Append(@, ns[ns[ns[node].Parent].Right].Hash),
                   !.Order = Append(@, left)]
    ELSE [a EXCEPT !.Path = Append(@, ns[ns[ns[node].Parent].Left].Hash),
                   !.Order = Append(@, right)]

\* one iteration of the loop of GetAuditPath: the entry appended for node
WalkStep(ns, node, a) ==
    IF ns[ns[node].Parent].Left = node
    THEN [a EXCEPT !.Path = Append(@, ns[ns[ns[node].Parent].Right].Hash),
                   !.Order = Append(@, right)]
    ELSE [a EXCEPT !.Path = Append(@, ns[ns[ns[node].Parent].Left].Hash),
                   !.Order = Append(@, left)]

\* the loop test of GetAuditPath, negated: bytes.Equal(node.Hash, mt.Hash)
WalkDone(ns, h, root, node) == Bytes(h, ns[node].Hash) = Bytes(h, ns[root].Hash)

\* for !bytes.Equal(node.Hash, mt.Hash) { ...; node = node.Parent }
RECURSIVE Walk(_, _, _, _, _)
Walk(ns, h, root, node, a) ==
    IF WalkDone(ns, h, root, node)
    THEN [ap |-> a, err |-> "nil"]
    ELSE IF ns[node].Parent = NIL
    THEN [ap |-> NilAP, err |-> "panic"]
    ELSE Walk(ns, h, root, ns[node].Parent, WalkStep(ns, node, a))

\* a GetAuditPath that takes a leaf without Parent for no leaf:
\* if node == nil || node.Parent == nil { return nil, errors.New(...) }
GetAuditPathRunNoRootLeaf(ns, h, root, data) ==
    LET node == findLeaf(ns, h, root, hash(data)) IN
    IF node = NIL \/ ns[node].Parent = NIL
    THEN [ap |-> NilAP, err |-> "error", node |-> NIL]
    ELSE LET w == Walk(ns, h, root, node, EmptyAP)
         IN  [ap |-> w.ap, err |-> w.err, node |-> node]

\* GetAuditPath: [ap, err, node]; node is the leaf findLeaf found
GetAuditPathRun(ns, h, root, data) ==
    LET node == findLeaf(ns, h, root, hash(data)) IN
    IF node = NIL
    THEN [ap |-> NilAP, err |-> "error", node |-> NIL]
    ELSE LET w == Walk(ns, h, root, node, EmptyAP)
         IN  [ap |-> w.ap, err |-> w.err, node |-> node]

---------------------------------------------------------------------------
(* IsValid *)

IsValidStepSwapped(h, o, p, hh) ==
    IF o = left
    THEN [heap |-> h, bytes |-> hh \o Bytes(h, p)]
    ELSE [heap |-> h, bytes |-> Bytes(h, p) \o hh]

\* an IsValid that also overwrites the entry of the path with the running
\* hash: copy(p, h) after the append
IsValidStepOverwrite(h, o, p, hh) ==
    [heap |-> [h EXCEPT ![p.buf] =
                 [j \in 1..Len(@) |->
                    IF j > p.off /\ j <= p.off + p.len /\ j - p.off <= Len(hh)
                    THEN hh[j - p.off] ELSE @[j]]],
     bytes |-> IF o = left THEN Bytes(h, p) \o hh ELSE hh \o Bytes(h, p)]

\* one entry of the loop of IsValid: append(p, h...) when ap.Order[i] is
\* left, append(h, p...) otherwise; [heap, bytes].  h is hash()'s fresh
\* array, full to its capacity, so append(h, p...) never writes in place
IsValidStep(h, o, p, hh) ==
    IF o = left
    THEN GoAppend(h, p, hh)
    ELSE [heap |-> h, bytes |-> hh \o Bytes(h, p)]

RootMatchesLen(rootHash, hh) == Len(rootHash) = Len(hh)

\* return bytes.Equal(rootHash, h)
RootMatches(rootHash, hh) == rootHash = hh

NilCheckMissing(a) == FALSE

\* if ap == nil
NilCheck(a) == a.isnil

\* the loop of IsValid from entry i on, hh the running digest:
\* [ret, heap]; reading ap.Order[i] past its end panics
RECURSIVE IsValidLoop(_, _, _, _, _)
IsValidLoop(h, a, i, hh, rootHash) ==
    IF i > Len(a.Path)
    THEN [ret |-> IF RootMatches(rootHash, hh) THEN "true" ELSE "false", heap |-> h]
    ELSE IF i > Len(a.Order)
    THEN [ret |-> "panic", heap |-> h]
    ELSE LET w == IsValidStep(h, a.Order[i], a.Path[i], hh)
         IN  IsValidLoop(w.heap, a, i + 1, hash(w.bytes), rootHash)

IsValidRun(h, a, data, rootHash) ==
    IF NilCheck(a)
    THEN [ret |-> "false", heap |-> h]
    ELSE IsValidLoop(h, a, 1, hash(data), rootHash)

---------------------------------------------------------------------------
(* Pretty, PrettyString *)

\* the characters of the canvas: a space, a branch, a newline, or a
\* hexadecimal digit of a digest byte (nib 0 the high digit, 1 the low)
Space == [k |-> " ", b |-> Raw(0), nib |-> 0]
Slash == [k |-> "/", b |-> Raw(0), nib |-> 0]
Backslash == [k |-> "\\", b |-> Raw(0), nib |-> 0]
Newline == [k |-> "\n", b |-> Raw(0), nib |-> 0]
HexDigit(b, nib) == [k |-> "x", b |-> b, nib |-> nib]

\* hashString: hex.EncodeToString(hash), two digits a byte
hashString(b) == [c \in 1..(2 * Len(b)) |-> HexDigit(b[(c + 1) \div 2], (c + 1) % 2)]

CeilHalfFloor(n) == n \div 2

\* int(math.Ceil(float64(n) / 2)) for n >= 0
CeilHalf(n) == (n + 1) \div 2

\* the number of Left links below node n
RECURSIVE LeftDepth(_, _)
LeftDepth(ns, n) == IF ns[n].Left = NIL THEN 0 ELSE 1 + LeftDepth(ns, ns[n].Left)

\* the branch lengths at the heights 0..num-1: [branches, length]
RECURSIVE BranchLengths(_, _)
BranchLengths(nodeWidth, num) ==
    IF num = 0 THEN [branches |-> <<>>, length |-> nodeWidth \div 2 + 1]
    ELSE LET prev == BranchLengths(nodeWidth, num - 1)
             i == num - 1
         IN  IF i = 0
             THEN [branches |-> <<prev.length>>, length |-> prev.length]
             ELSE [branches |-> Append(prev.branches, prev.length + i + CeilHalf(nodeWidth)),
                   length |-> prev.length + prev.length + i + CeilHalf(nodeWidth)]

RECURSIVE SumSeq(_)
SumSeq(q) == IF Len(q) = 0 THEN 0 ELSE Head(q) + SumSeq(Tail(q))

Max2(a, b) == IF a > b THEN a ELSE b
Min2(a, b) == IF a < b THEN a ELSE b

\* is (x, y) a cell of the canvas cv (coordinates from 0, as in the code)
InCanvas(cv, x, y) == x >= 0 /\ x < Len(cv) /\ y >= 0 /\ y < Len(cv[x + 1])

\* for lx <= x+length { canvas[lx][ly] = c; lx++; ly += dir }, entered with
\* lx = x + 1, ly = y0 and n = length iterations to go; a cell off the
\* canvas panics
RECURSIVE DrawBranch(_, _, _, _, _, _)
DrawBranch(st, x, y0, dir, n, c) ==
    IF n = 0 THEN st
    ELSE IF ~InCanvas(st.canvas, x + 1, y0) THEN [st EXCEPT !.ok = FALSE]
    ELSE DrawBranch([st EXCEPT !.canvas[x + 2][y0 + 1] = c],
                    x + 1, y0 + dir, dir, n - 1, c)

\* draw: st = [canvas, maxX, minY, maxY, ok]; ok turns FALSE when the code
\* would panic (a slice or an index out of range, a nil node)
RECURSIVE draw(_, _, _, _, _, _, _, _)
draw(ns, h, nodeWidth, branches, n, x, y, st) ==
    IF ~st.ok THEN st
    ELSE IF \/ x < 0 \/ x >= Len(st.canvas)
            \/ y < 0 \/ y + nodeWidth > Len(st.canvas[x + 1])
            \/ nodeWidth > 2 * ns[n].Hash.len
    THEN [st EXCEPT !.ok = FALSE]
    ELSE
    LET label == SubSeq(hashString(Bytes(h, ns[n].Hash)), 1, nodeWidth)
        isLeft == ns[n].Parent # NIL /\ n = ns[ns[n].Parent].Left
        isRight == ns[n].Parent # NIL /\ n # ns[ns[n].Parent].Left
        s1 == [st EXCEPT
                 !.canvas = [@ EXCEPT ![x + 1] =
                               [q \in 1..Len(@) |->
                                  IF q - 1 >= y /\ q - 1 < y + nodeWidth
                                  THEN label[q - y] ELSE @[q]]],
                 !.maxX = IF isLeft THEN Max2(@, x) ELSE @,
                 !.minY = IF isLeft THEN Min2(@, y) ELSE @,
                 !.maxY = IF isRight THEN Max2(@, y + nodeWidth - 1) ELSE @]
    IN
    IF ns[n].Left = NIL THEN s1
    ELSE IF ns[n].Right = NIL THEN [s1 EXCEPT !.ok = FALSE]
    ELSE
    LET rightBranchNum == LeftDepth(ns, ns[n].Right) IN
    IF rightBranchNum >= Len(branches) THEN [s1 EXCEPT !.ok = FALSE]
    ELSE
    LET length == branches[rightBranchNum + 1]
        offset == CeilHalf(nodeWidth)
        adj == IF ns[n].Parent # NIL /\ n = ns[ns[n].Parent].Right
               THEN (nodeWidth + 1) % 2 ELSE 0
        ly0 == y + offset - 2 + adj
        ry0 == y + offset + adj
        s2 == DrawBranch(s1, x, ly0, 0 - 1, length, Slash)
        s3 == IF s2.ok
              THEN draw(ns, h, nodeWidth, branches, ns[n].Left,
                        x + length + 1, ly0 - length - offset + 1, s2)
              ELSE s2
        s4 == IF s3.ok THEN DrawBranch(s3, x, ry0, 1, length, Backslash) ELSE s3
    IN  IF s4.ok
        THEN draw(ns, h, nodeWidth, branches, ns[n].Right,
                  x + length + 1, ry0 + length - CeilHalf(nodeWidth - 1), s4)
        ELSE s4

\* strings.TrimRight(string(c), " ")
RECURSIVE TrimRight(_)
TrimRight(row) ==
    IF Len(row) > 0 /\ row[Len(row)] = Space
    THEN TrimRight(SubSeq(row, 1, Len(row) - 1))
    ELSE row

PrettyEmptyBelowZero(root, nodeWidth) == root = NIL \/ nodeWidth < 0

\* if mt == nil || nodeWidth < 1 { return []string{} }
PrettyEmpty(root, nodeWidth) == root = NIL \/ nodeWidth < 1

\* Pretty: [ok, lines]; ok is FALSE when the call panics
PrettyRun(ns, h, root, nodeWidth) ==
    IF PrettyEmpty(root, nodeWidth) THEN [ok |-> TRUE, lines |-> <<>>]
    ELSE
    LET leftBranchNum == LeftDepth(ns, root)
        offset == CeilHalf(nodeWidth)
        branches == BranchLengths(nodeWidth, leftBranchNum).branches
        canvasMaxHeight == 1 + SumSeq(branches) + Len(branches)
        canvasMaxWidth ==
            (IF Len(branches) = 0 THEN nodeWidth ELSE offset * 2 - 1)
                + 2 * (SumSeq(branches) + Len(branches))
        blank == [r \in 1..canvasMaxHeight |-> [q \in 1..canvasMaxWidth |-> Space]]
        st == draw(ns, h, nodeWidth, branches, root, 0,
                   canvasMaxWidth \div 2 - offset + 1,
                   [canvas |-> blank, maxX |-> 0, minY |-> canvasMaxWidth - 1,
                    maxY |-> 0, ok |-> TRUE])
    IN
    IF ~st.ok THEN [ok |-> FALSE, lines |-> <<>>]
    ELSE IF st.maxX + 1 > canvasMaxHeight
            \/ st.minY < 0 \/ st.minY > st.maxY + 1 \/ st.maxY + 1 > canvasMaxWidth
    THEN [ok |-> FALSE, lines |-> <<>>]
    ELSE [ok |-> TRUE,
          lines |-> [r \in 1..(st.maxX + 1) |->
                       TrimRight(SubSeq(st.canvas[r], st.minY + 1, st.maxY + 1))]]

\* strings.Join(lines, "\n")
RECURSIVE Join(_)
Join(ls) ==
    IF Len(ls) = 0 THEN <<>>
    ELSE IF Len(ls) = 1 THEN ls[1]
    ELSE ls[1] \o <<Newline>> \o Join(Tail(ls))

\* PrettyString: [ok, text], with the lines Pretty returned to it
PrettyStringRun(ns, h, root, nodeWidth) ==
    LET r == PrettyRun(ns, h, root, nodeWidth)
    IN  [ok |-> r.ok, lines |-> r.lines, text |-> Join(r.lines)]

---------------------------------------------------------------------------
(* The caller: the inputs of the calls *)

Internal(ns) == {n \in 1..Len(ns) : ns[n].Left # NIL}
Leaves(ns) == {n \in 1..Len(ns) : ns[n].Left = NIL /\ ns[n].Right = NIL}

RootHash == Bytes(heap, nodes[mt].Hash)

\* the concatenation of the child digests of an internal node
ChildCat(n) ==
    Bytes(heap, nodes[nodes[n].Left].Hash) \o Bytes(heap, nodes[nodes[n].Right].Hash)

\* data a caller queries with: the blocks, a block New never gets, and the
\* byte strings the internal nodes hash
QueryData == BlockValues \cup {<<Raw(2)>>} \cup {ChildCat(n) : n \in Internal(nodes)}

\* data a caller verifies: the blocks, a block New never gets, and the byte
\* string the root hashes
VerifyData == BlockValues \cup {<<Raw(2)>>} \cup {ChildCat(n) : n \in Internal(nodes) \cap {mt}}

\* a digest with byte j damaged
Flip(b, j) == [k \in 1..Len(b) |-> IF k = j THEN [b[k] EXCEPT !.i = @ + HashLen] ELSE b[k]]

\* the values a caller overwrites an entry with
TamperValues(b) ==
    {Flip(b, j) : j \in 1..Len(b)} \cup {RootHash, hash(prov.data), hash(<<Raw(2)>>)}

\* the entries and side tags of a caller-built AuditPath
EntryValues ==
    {Bytes(heap, nodes[IF nodes[mt].Left = NIL THEN mt ELSE nodes[mt].Left].Hash), <<>>}
OrderValues == {left, right, 2}

\* the concatenation of a sequence of byte strings
RECURSIVE Cat(_)
Cat(ss) == IF Len(ss) = 0 THEN <<>> ELSE Head(ss) \o Cat(Tail(ss))

\* the heap without the buffers the caller no longer holds
TreeHeap == SubSeq(heap, 1, Len(nodes))

---------------------------------------------------------------------------
(* The state machine *)

NoCall == [op |-> "none", data |-> <<>>, rootHash |-> <<>>, node |-> NIL,
           nodeWidth |-> 0]

Procs == 1..NumProcs

\* a goroutine between two calls, before its first
Idle == [pc |-> "idle", data |-> <<>>, node |-> NIL, ap |-> NilAP,
         i |-> 0, hh |-> <<>>, ret |-> "none"]

NotDrawn == [ok |-> TRUE, lines |-> <<>>, text |-> <<>>]

\* the root package before NewMerkleTree: pc is the position of the builder,
\* level the slice nodes of NewMerkleTree, iter the parity of the iterations
\* its loop has made, ps the last proof
NoTree == [pc |-> "none", data |-> <<>>, nodes |-> <<>>, level |-> <<>>,
           iter |-> 0, root |-> NIL, ps |-> <<>>, psnil |-> TRUE, err |-> "nil",
           valid |-> "none", op |-> "none", query |-> <<>>]

Init ==
    /\ mt = NIL
    /\ nodes = <<>>
    /\ heap = <<>>
    /\ blocks = <<>>
    /\ ap = NilAP
    /\ err = "nil"
    /\ valid = "none"
    /\ prov = [kind |-> "none", data |-> <<>>]
    /\ last = NoCall
    /\ procs = [g \in Procs |-> Idle]
    /\ drawn = NotDrawn
    /\ rp = NoTree

New(data) ==
    /\ mt = NIL
    /\ LET t == NewTree(data) IN
       /\ mt' = t.root
       /\ nodes' = t.nodes
       /\ heap' = t.heap
    /\ blocks' = data
    /\ last' = [NoCall EXCEPT !.op = "New"]
    /\ UNCHANGED <<ap, err, valid, prov, procs, drawn, rp>>

GetAuditPath(data) ==
    /\ mt # NIL
    /\ LET r == GetAuditPathRun(nodes, heap, mt, data) IN
       /\ ap' = r.ap
       /\ err' = r.err
       /\ prov' = [kind |-> IF r.err = "nil" THEN "returned" ELSE "failed", data |-> data]
       /\ last' = [NoCall EXCEPT !.op = "GetAuditPath", !.data = data, !.node = r.node]
    /\ heap' = TreeHeap
    /\ UNCHANGED <<mt, nodes, blocks, valid, procs, drawn, rp>>

\* the caller replaces entry i of the returned path by another value
Tamper(i, v) ==
    /\ prov.kind = "returned"
    /\ i \in 1..Len(ap.Path)
    /\ v # Bytes(heap, ap.Path[i])
    /\ LET al == Alloc(heap, v) IN
       /\ heap' = al.heap
       /\ ap' = [ap EXCEPT !.Path[i] = al.slice]
    /\ prov' = [prov EXCEPT !.kind = "tampered"]
    /\ last' = [NoCall EXCEPT !.op = "Tamper"]
    /\ UNCHANGED <<mt, nodes, blocks, err, valid, procs, drawn, rp>>

\* a caller that holds no AuditPath yet builds one of its own: m entries
\* of value v, the consecutive sub-slices of one buffer (shared) or each a
\* buffer of its own, and k side tags o
Forge(v, m, o, k, shared) ==
    /\ mt # NIL
    /\ prov.kind = "none"
    /\ shared => m > 1
    /\ m = 0 => v = <<>>
    /\ k = 0 => o = left
    /\ LET base == Len(nodes)
           vals == [j \in 1..m |-> v]
       IN
       /\ heap' = IF shared
                  THEN TreeHeap \o <<Cat(vals)>>
                  ELSE TreeHeap \o vals
       /\ ap' = [isnil |-> FALSE,
                 Path |-> [j \in 1..m |->
                            IF shared
                            THEN [buf |-> base + 1, off |-> (j - 1) * Len(v),
                                  len |-> Len(v), cap |-> (m - j + 1) * Len(v)]
                            ELSE [buf |-> base + j, off |-> 0,
                                  len |-> Len(v), cap |-> Len(v)]],
                 Order |-> [j \in 1..k |-> o]]
    /\ prov' = [kind |-> "forged", data |-> <<>>]
    /\ last' = [NoCall EXCEPT !.op = "Forge"]
    /\ UNCHANGED <<mt, nodes, blocks, err, valid, procs, drawn, rp>>

IsValid(data, rootHash) ==
    /\ mt # NIL
    /\ LET r == IsValidRun(heap, ap, data, rootHash) IN
       /\ valid' = r.ret
       /\ heap' = r.heap
    /\ last' = [NoCall EXCEPT !.op = "IsValid", !.data = data, !.rootHash = rootHash]
    /\ UNCHANGED <<mt, nodes, blocks, ap, err, prov, procs, drawn, rp>>

Next ==
    \/ /\ mt = NIL
       /\ \E data \in SeqsUpTo(BlockValues, MaxBlocks) : New(data)
    \/ /\ mt # NIL
       /\ \E data \in QueryData : GetAuditPath(data)
    \/ /\ prov.kind = "returned"
       /\ \E i \in 1..Len(ap.Path) :
             \E v \in TamperValues(Bytes(heap, ap.Path[i])) : Tamper(i, v)
    \/ /\ mt # NIL
       /\ prov.kind = "none"
       /\ \E v \in EntryValues, o \in OrderValues :
             \E m \in 0..MaxForge, k \in 0..MaxForge :
                \E shared \in BOOLEAN : Forge(v, m, o, k, shared)
    \/ /\ mt # NIL
       /\ \E data \in VerifyData :
             \E rootHash \in {RootHash, hash(data)} : IsValid(data, rootHash)

Spec == Init /\ [][Next]_vars

---------------------------------------------------------------------------
(* A caller that writes into the path it was given *)

\* the arrays behind the digests are as New left them
Intact == TreeHeap = NewTree(blocks).heap

\* the values the caller writes
OverwriteValues == {hash(<<Raw(2)>>)}

\* copy(ap.Path[i], v): the caller overwrites in place the bytes of entry i
\* of the returned path; a behaviour has one such write
Overwrite(i, v) ==
    /\ prov.kind = "returned"
    /\ Intact
    /\ i \in 1..Len(ap.Path)
    /\ Len(v) = ap.Path[i].len
    /\ v # Bytes(heap, ap.Path[i])
    /\ LET p == ap.Path[i] IN
       heap' = [heap EXCEPT ![p.buf] =
                  [j \in 1..Len(@) |->
                     IF j > p.off /\ j <= p.off + p.len THEN v[j - p.off] ELSE @[j]]]
    /\ prov' = [prov EXCEPT !.kind = "overwritten"]
    /\ last' = [NoCall EXCEPT !.op = "Overwrite"]
    /\ UNCHANGED <<mt, nodes, blocks, ap, err, valid, procs, drawn, rp>>

NextAlias ==
    \/ Next
    \/ /\ prov.kind = "returned"
       /\ \E i \in 1..Len(ap.Path) :
             \E v \in OverwriteValues : Overwrite(i, v)

SpecAlias == Init /\ [][NextAlias]_vars

---------------------------------------------------------------------------
(* Concurrent queries: goroutines that call GetAuditPath, IsValid, Pretty  *)
(* and PrettyString on one tree, a loop iteration a step                   *)

\* the trees the goroutines query: n blocks, all different
GoBlocks(n) == [k \in 1..n |-> <<Raw(k)>>]

\* data the goroutines query with: the blocks and a block New never gets
GoData == Range(blocks) \cup {<<Raw(0)>>}

\* goroutine g enters GetAuditPath(data): findLeaf
CallGetAuditPath(g, data) ==
    /\ procs[g].pc = "idle"
    /\ LET node == findLeaf(nodes, heap, mt, hash(data)) IN
       procs' = [procs EXCEPT ![g] =
                   IF node = NIL
                   THEN [Idle EXCEPT !.pc = "got", !.data = data,
                                     !.ret = "error"]
                   ELSE [Idle EXCEPT !.pc = "walk", !.data = data,
                                     !.node = node, !.ap = EmptyAP]]
    /\ UNCHANGED <<mt, nodes, heap, blocks, ap, err, valid, prov, last, drawn, rp>>

\* goroutine g makes one iteration of the loop of GetAuditPath, or returns
StepGetAuditPath(g) ==
    /\ procs[g].pc = "walk"
    /\ LET p == procs[g] IN
       procs' = [procs EXCEPT ![g] =
                   IF WalkDone(nodes, heap, mt, p.node)
                   THEN [p EXCEPT !.pc = "got", !.node = NIL, !.ret = "nil"]
                   ELSE IF nodes[p.node].Parent = NIL
                   THEN [Idle EXCEPT !.ret = "panic"]
                   ELSE [p EXCEPT !.ap = WalkStep(nodes, p.node, p.ap),
                                  !.node = nodes[p.node].Parent]]
    /\ UNCHANGED <<mt, nodes, heap, blocks, ap, err, valid, prov, last, drawn, rp>>

\* goroutine g enters IsValid(data, mt.Hash) on the path it got for data
CallIsValid(g) ==
    /\ procs[g].pc = "got"
    /\ LET p == procs[g] IN
       procs' = [procs EXCEPT ![g] =
                   IF NilCheck(p.ap)
                   THEN [Idle EXCEPT !.pc = "checked", !.ret = "false"]
                   ELSE [p EXCEPT !.pc = "verify", !.i = 1,
                                  !.hh = hash(p.data), !.ret = "none"]]
    /\ UNCHANGED <<mt, nodes, heap, blocks, ap, err, valid, prov, last, drawn, rp>>

\* goroutine g makes one iteration of the loop of IsValid, or returns
StepIsValid(g) ==
    /\ procs[g].pc = "verify"
    /\ LET p == procs[g] IN
       IF p.i > Len(p.ap.Path)
       THEN /\ procs' = [procs EXCEPT ![g] =
                           [Idle EXCEPT !.pc = "checked",
                                        !.ret = IF RootMatches(RootHash, p.hh)
                                                THEN "true" ELSE "false"]]
            /\ heap' = heap
       ELSE IF p.i > Len(p.ap.Order)
       THEN /\ procs' = [procs EXCEPT ![g] = [Idle EXCEPT !.ret = "panic"]]
            /\ heap' = heap
       ELSE LET w == IsValidStep(heap, p.ap.Order[p.i], p.ap.Path[p.i], p.hh) IN
            /\ procs' = [procs EXCEPT ![g] =
                           [p EXCEPT !.i = p.i + 1, !.hh = hash(w.bytes)]]
            /\ heap' = w.heap
    /\ UNCHANGED <<mt, nodes, blocks, ap, err, valid, prov, last, drawn, rp>>

\* goroutine g, back from IsValid, calls PrettyString(nodeWidth), and so
\* Pretty(nodeWidth); a behaviour has one rendering
CallPrettyString(g, nodeWidth) ==
    /\ procs[g].pc = "checked"
    /\ drawn = NotDrawn
    /\ LET r == PrettyStringRun(nodes, heap, mt, nodeWidth) IN
       drawn' = [ok |-> r.ok, lines |-> r.lines, text |-> r.text]
    /\ procs' = [procs EXCEPT ![g] = Idle]
    /\ UNCHANGED <<mt, nodes, heap, blocks, ap, err, valid, prov, last, rp>>

\* goroutine g, back from IsValid, starts over
Again(g) ==
    /\ procs[g].pc = "checked"
    /\ procs' = [procs EXCEPT ![g] = Idle]
    /\ UNCHANGED <<mt, nodes, heap, blocks, ap, err, valid, prov, last, drawn, rp>>

NextConc ==
    \/ /\ mt = NIL
       /\ \E n \in 0..MaxBlocks : New(GoBlocks(n))
    \/ /\ mt # NIL
       /\ \E g \in Procs : \E data \in GoData : CallGetAuditPath(g, data)
    \/ \E g \in Procs : StepGetAuditPath(g)
    \/ \E g \in Procs : CallIsValid(g)
    \/ \E g \in Procs : StepIsValid(g)
    \/ \E g \in Procs : CallPrettyString(g, HashLen)
    \/ \E g \in Procs : Again(g)

SpecConc == Init /\ [][NextConc]_vars

---------------------------------------------------------------------------
(* Rendering: one call of Pretty or PrettyString on a nil handle or on a   *)
(* tree of 0..MaxDrawn blocks                                              *)

\* the widths a caller asks for: negative, zero, up to the length of the
\* hexadecimal digest, and one more
Widths == (0 - 1)..(2 * HashLen + 1)

Rendered == last.op \in {"Pretty", "PrettyString"}

Pretty(nodeWidth) ==
    /\ ~Rendered
    /\ LET r == PrettyRun(nodes, heap, mt, nodeWidth) IN
       drawn' = [ok |-> r.ok, lines |-> r.lines, text |-> <<>>]
    /\ last' = [NoCall EXCEPT !.op = "Pretty", !.nodeWidth = nodeWidth]
    /\ UNCHANGED <<mt, nodes, heap, blocks, ap, err, valid, prov, procs, rp>>

PrettyString(nodeWidth) ==
    /\ ~Rendered
    /\ LET r == PrettyStringRun(nodes, heap, mt, nodeWidth) IN
       drawn' = [ok |-> r.ok, lines |-> r.lines, text |-> r.text]
    /\ last' = [NoCall EXCEPT !.op = "PrettyString", !.nodeWidth = nodeWidth]
    /\ UNCHANGED <<mt, nodes, heap, blocks, ap, err, valid, prov, procs, rp>>

NextPretty ==
    \/ /\ mt = NIL
       /\ last.op = "none"
       /\ \E n \in 0..MaxDrawn : New(GoBlocks(n))
    \/ \E nodeWidth \in Widths : Pretty(nodeWidth)
    \/ \E nodeWidth \in Widths : PrettyString(nodeWidth)

SpecPretty == Init /\ [][NextPretty]_vars

---------------------------------------------------------------------------
(* The root package: NewMerkleTree, GetProof, VerifyProof.  A node is a    *)
(* record [Parent, Left, Right, Hash] at an index of rp.nodes              *)

newMerkleNodeSwapped(ns, l, r, data) ==
    LET id == Len(ns) + 1
        node == [Parent |-> NIL, Left |-> l, Right |-> r,
                 Hash |-> IF l = NIL /\ r = NIL THEN hash(data)
                          ELSE hash(ns[r].Hash \o ns[l].Hash)]
    IN  [k \in 1..id |->
           IF k = id THEN node
           ELSE IF k = l \/ k = r THEN [ns[k] EXCEPT !.Parent = id]
           ELSE ns[k]]

\* newMerkleNode: the nodes with the new node appended, the children's
\* Parent set; the hash of a leaf is that of data, the hash of a parent that
\* of append(left.Hash, right.Hash...)
newMerkleNode(ns, l, r, data) ==
    LET id == Len(ns) + 1
        node == [Parent |-> NIL, Left |-> l, Right |-> r,
                 Hash |-> IF l = NIL /\ r = NIL THEN hash(data)
                          ELSE hash(ns[l].Hash \o ns[r].Hash)]
    IN  [k \in 1..id |->
           IF k = id THEN node
           ELSE IF k = l \/ k = r THEN [ns[k] EXCEPT !.Parent = id]
           ELSE ns[k]]

\* for _, datum := range data { nodes = append(nodes, newMerkleNode(nil, nil, datum)) }
RECURSIVE LeafNodes(_, _)
LeafNodes(ns, data) ==
    IF Len(data) = 0 THEN ns
    ELSE LeafNodes(newMerkleNode(ns, NIL, NIL, Head(data)), Tail(data))

\* for i := 0; i+1 < len(nodes); i += 2 { ... }: [nodes, parents], i from 1
RECURSIVE PairUp(_, _, _)
PairUp(ns, level, i) ==
    IF i + 1 > Len(level) THEN [nodes |-> ns, parents |-> <<>>]
    ELSE LET ns1 == newMerkleNode(ns, level[i], level[i + 1],
                                  ns[level[i]].Hash \o ns[level[i + 1]].Hash)
             rest == PairUp(ns1, level, i + 2)
         IN  [nodes |-> rest.nodes, parents |-> <<Len(ns1)>> \o rest.parents]

\* one iteration of for len(nodes) != 1: [nodes, level]
LevelUp(ns, level) ==
    LET p == PairUp(ns, level, 1) IN
    [nodes |-> p.nodes,
     level |-> IF Len(level) % 2 # 0
               THEN Append(p.parents, level[Len(level)])
               ELSE p.parents]

\* findNode: the first leaf with the hash h, left before right
RECURSIVE findNode(_, _, _)
findNode(ns, n, h) ==
    IF n = NIL THEN NIL
    ELSE IF ns[n].Left = NIL /\ ns[n].Right = NIL /\ ns[n].Hash = h THEN n
    ELSE LET node == findNode(ns, ns[n].Left, h)
         IN  IF node = NIL THEN findNode(ns, ns[n].Right, h) ELSE node

\* the loop of GetProof from node: [ps, err], err "panic" on a nil Parent
RECURSIVE ProofWalk(_, _, _, _)
ProofWalk(ns, root, node, ps) ==
    IF ns[node].Hash = ns[root].Hash THEN [ps |-> ps, err |-> "nil"]
    ELSE IF ns[node].Parent = NIL THEN [ps |-> ps, err |-> "panic"]
    ELSE LET parent == ns[node].Parent IN
         ProofWalk(ns, root, parent,
                   Append(ps, IF ns[parent].Left = node
                              THEN [Hash |-> ns[ns[parent].Right].Hash, Order |-> right]
                              ELSE [Hash |-> ns[ns[parent].Left].Hash, Order |-> left]))

\* GetProof: [ps, psnil, err]; ps is nil when nothing was appended to it
GetProofRun(ns, root, data) ==
    LET node == findNode(ns, root, hash(data)) IN
    IF node = NIL THEN [ps |-> <<>>, psnil |-> TRUE, err |-> "error"]
    ELSE LET w == ProofWalk(ns, root, node, <<>>)
         IN  [ps |-> w.ps, psnil |-> Len(w.ps) = 0, err |-> w.err]

\* the loop of VerifyProof; an Order that is neither left nor right leaves
\* the hash as it is
RECURSIVE VerifyLoop(_, _)
VerifyLoop(hh, ps) ==
    IF Len(ps) = 0 THEN hh
    ELSE LET p == Head(ps) IN
         VerifyLoop(IF p.Order = left THEN hash(p.Hash \o hh)
                    ELSE IF p.Order = right THEN hash(hh \o p.Hash)
                    ELSE hh,
                    Tail(ps))

\* VerifyProof
VerifyProofRun(data, ps, root) == VerifyLoop(hash(data), ps) = root

\* NewMerkleTree on one block or more: [nodes, root]
RECURSIVE Fold(_, _)
Fold(ns, level) ==
    IF Len(level) = 1 THEN [nodes |-> ns, root |-> level[1]]
    ELSE LET u == LevelUp(ns, level) IN Fold(u.nodes, u.level)

\* a tree of the root package as nested tuples <<hash, children>>
RECURSIVE RootShape(_, _)
RootShape(ns, n) ==
    <<ns[n].Hash,
      IF ns[n].Left = NIL /\ ns[n].Right = NIL THEN <<>>
      ELSE <<RootShape(ns, ns[n].Left), RootShape(ns, ns[n].Right)>> >>

\* a tree of package binary as nested tuples <<hash, children>>
RECURSIVE BinaryShape(_, _, _)
BinaryShape(ns, h, n) ==
    <<Bytes(h, ns[n].Hash),
      IF ns[n].Left = NIL /\ ns[n].Right = NIL THEN <<>>
      ELSE <<BinaryShape(ns, h, ns[n].Left), BinaryShape(ns, h, ns[n].Right)>> >>

\* the variables of package binary
binaryVars == <<mt, nodes, heap, blocks, ap, err, valid, prov, last, procs, drawn>>

\* data a caller asks a proof for: the blocks, a block the builder never
\* gets, and the byte string the root hashes
ProofData ==
    BlockValues \cup {<<Raw(2)>>}
        \cup (IF rp.nodes[rp.root].Left = NIL THEN {}
              ELSE {rp.nodes[rp.nodes[rp.root].Left].Hash
                        \o rp.nodes[rp.nodes[rp.root].Right].Hash})

\* NewMerkleTree(data...) up to its loop: the leaves
NewMerkleTree(data) ==
    /\ rp.pc = "none"
    /\ rp' = [NoTree EXCEPT !.pc = "build", !.data = data,
                            !.nodes = LeafNodes(<<>>, data),
                            !.level = [k \in 1..Len(data) |-> k],
                            !.op = "NewMerkleTree"]
    /\ UNCHANGED binaryVars

\* one test of for len(nodes) != 1: an iteration, or the return
BuildLevel ==
    /\ rp.pc = "build"
    /\ IF Len(rp.level) = 1
       THEN rp' = [rp EXCEPT !.pc = "built", !.root = rp.level[1]]
       ELSE LET u == LevelUp(rp.nodes, rp.level)
            IN  rp' = [rp EXCEPT !.nodes = u.nodes, !.level = u.level,
                                 !.iter = 1 - @]
    /\ UNCHANGED binaryVars

GetProof(data) ==
    /\ rp.pc = "built"
    /\ LET r == GetProofRun(rp.nodes, rp.root, data) IN
       rp' = [rp EXCEPT !.ps = r.ps, !.psnil = r.psnil, !.err = r.err,
                        !.valid = "none", !.op = "GetProof", !.query = data]
    /\ UNCHANGED binaryVars

\* VerifyProof(data, ps, mt.Root.Hash) with the data and the result of the
\* last GetProof
VerifyProof ==
    /\ rp.pc = "built"
    /\ rp.op = "GetProof"
    /\ rp.err # "panic"
    /\ rp' = [rp EXCEPT !.op = "VerifyProof",
                        !.valid = IF VerifyProofRun(rp.query, rp.ps,
                                                    rp.nodes[rp.root].Hash)
                                  THEN "true" ELSE "false"]
    /\ UNCHANGED binaryVars

\* the inputs of the builder: up to MaxBlocks blocks, equal ones among
\* them, and up to MaxDrawn blocks that all differ
BuilderInputs ==
    SeqsUpTo(BlockValues, MaxBlocks) \cup {GoBlocks(n) : n \in 0..MaxDrawn}

NextRoot ==
    \/ \E data \in BuilderInputs : NewMerkleTree(data)
    \/ BuildLevel
    \/ /\ rp.pc = "built"
       /\ \E data \in ProofData : GetProof(data)
    \/ VerifyProof

SpecRoot == Init /\ [][NextRoot]_vars

\* the loop of NewMerkleTree keeps running
SpecRootFair == SpecRoot /\ WF_vars(BuildLevel)

---------------------------------------------------------------------------
(* The fixtures of TestMerkleTree_Pretty *)

\* n spaces
Sp(n) == [k \in 1..n |-> Space]

\* hashString(h)[:w]
Lab(h, w) == SubSeq(hashString(h), 1, w)

aHash == hash(<<Raw(1)>>)
bHash == hash(<<Raw(2)>>)
cHash == hash(<<Raw(3)>>)
dHash == hash(<<Raw(4)>>)
eHash == hash(<<Raw(5)>>)
fHash == hash(<<Raw(6)>>)
gHash == hash(<<Raw(7)>>)
abHash == hash(aHash \o bHash)
cdHash == hash(cHash \o dHash)
efHash == hash(eHash \o fHash)
abcHash == hash(abHash \o cHash)
efgHash == hash(efHash \o gHash)
abcdHash == hash(abHash \o cdHash)
abcdefgHash == hash(abcdHash \o efgHash)

ab_2 ==
    << Sp(3) \o Lab(abHash, 2),
       Sp(2) \o <<Slash>> \o Sp(1) \o <<Backslash>>,
       Sp(1) \o <<Slash>> \o Sp(3) \o <<Backslash>>,
       Lab(aHash, 2) \o Sp(3) \o Lab(bHash, 2) >>

abc_3 ==
    << Sp(6) \o Lab(abcHash, 3),
       Sp(6) \o <<Slash>> \o Sp(1) \o <<Backslash>>,
       Sp(5) \o <<Slash>> \o Sp(3) \o <<Backslash>>,
       Sp(3) \o Lab(abHash, 3) \o Sp(3) \o Lab(cHash, 3),
       Sp(3) \o <<Slash>> \o Sp(1) \o <<Backslash>>,
       Sp(2) \o <<Slash>> \o Sp(3) \o <<Backslash>>,
       Lab(aHash, 3) \o Sp(3) \o Lab(bHash, 3) >>

abcd_4 ==
    << Sp(11) \o Lab(abcdHash, 4),
       Sp(11) \o <<Slash>> \o Sp(1) \o <<Backslash>>,
       Sp(10) \o <<Slash>> \o Sp(3) \o <<Backslash>>,
       Sp(9) \o <<Slash>> \o Sp(5) \o <<Backslash>>,
       Sp(8) \o <<Slash>> \o Sp(7) \o <<Backslash>>,
       Sp(7) \o <<Slash>> \o Sp(9) \o <<Backslash>>,
       Sp(6) \o <<Slash>> \o Sp(11) \o <<Backslash>>,
       Sp(4) \o Lab(abHash, 4) \o Sp(9) \o Lab(cdHash, 4),
       Sp(4) \o <<Slash>> \o Sp(1) \o <<Backslash>> \o Sp(11) \o <<Slash>> \o Sp(1) \o <<Backslash>>,
       Sp(3) \o <<Slash>> \o Sp(3) \o <<Backslash>> \o Sp(9) \o <<Slash>> \o Sp(3) \o <<Backslash>>,
       Sp(2) \o <<Slash>> \o Sp(5) \o <<Backslash>> \o Sp(7) \o <<Slash>> \o Sp(5) \o <<Backslash>>,
       Lab(aHash, 4) \o Sp(3) \o Lab(bHash, 4) \o Sp(3) \o Lab(cHash, 4) \o Sp(3) \o Lab(dHash, 4) >>

abcdefg_2 ==
    << Sp(18) \o Lab(abcdefgHash, 2),
       Sp(17) \o <<Slash>> \o Sp(1) \o <<Backslash>>,
       Sp(16) \o <<Slash>> \o Sp(3) \o <<Backslash>>,
       Sp(15) \o <<Slash>> \o Sp(5) \o <<Backslash>>,
       Sp(14) \o <<Slash>> \o Sp(7) \o <<Backslash>>,
       Sp(13) \o <<Slash>> \o Sp(9) \o <<Backslash>>,
       Sp(12) \o <<Slash>> \o Sp(11) \o <<Backslash>>,
       Sp(11) \o <<Slash>> \o Sp(13) \o <<Backslash>>,
       Sp(10) \o <<Slash>> \o Sp(15) \o <<Backslash>>,
       Sp(9) \o <<Slash>> \o Sp(17) \o <<Backslash>>,
       Sp(8) \o Lab(abcdHash, 2) \o Sp(17) \o Lab(efgHash, 2),
       Sp(7) \o <<Slash>> \o Sp(1) \o <<Backslash>> \o Sp(17) \o <<Slash>> \o Sp(1) \o <<Backslash>>,
       Sp(6) \o <<Slash>> \o Sp(3) \o <<Backslash>> \o Sp(15) \o <<Slash>> \o Sp(3) \o <<Backslash>>,
       Sp(5) \o <<Slash>> \o Sp(5) \o <<Backslash>> \o Sp(13) \o Lab(efHash, 2) \o Sp(3) \o Lab(gHash, 2),
       Sp(4) \o <<Slash>> \o Sp(7) \o <<Backslash>> \o Sp(11) \o <<Slash>> \o Sp(1) \o <<Backslash>>,
       Sp(3) \o Lab(abHash, 2) \o Sp(7) \o Lab(cdHash, 2) \o Sp(9) \o <<Slash>> \o Sp(3) \o <<Backslash>>,
       Sp(2) \o <<Slash>> \o Sp(1) \o <<Backslash>> \o Sp(7) \o <<Slash>> \o Sp(1) \o <<Backslash>> \o Sp(7) \o Lab(eHash, 2) \o Sp(3) \o Lab(fHash, 2),
       Sp(1) \o <<Slash>> \o Sp(3) \o <<Backslash>> \o Sp(5) \o <<Slash>> \o Sp(3) \o <<Backslash>>,
       Lab(aHash, 2) \o Sp(3) \o Lab(bHash, 2) \o Sp(3) \o Lab(cHash, 2) \o Sp(3) \o Lab(dHash, 2) >>

---------------------------------------------------------------------------
(* Reference definitions the claims are stated with *)

\* the largest power of two strictly less than n, for n >= 2
LargestPow2Below(n) ==
    CHOOSE k \in 1..(n - 1) : (\E e \in 0..n : k = Exp2(e)) /\ 2 * k >= n

\* the Merkle tree hash of a non-empty sequence of blocks
RECURSIVE MTH(_)
MTH(bs) ==
    IF Len(bs) = 1 THEN hash(bs[1])
    ELSE LET k == LargestPow2Below(Len(bs))
         IN  hash(MTH(SubSeq(bs, 1, k)) \o MTH(SubSeq(bs, k + 1, Len(bs))))

\* the digests of the leaves below node n, left to right
RECURSIVE LeafHashes(_)
LeafHashes(n) ==
    IF nodes[n].Left = NIL /\ nodes[n].Right = NIL
    THEN <<Bytes(heap, nodes[n].Hash)>>
    ELSE LeafHashes(nodes[n].Left) \o LeafHashes(nodes[n].Right)

\* the number of proper ancestors of node n
RECURSIVE Depth(_)
Depth(n) == IF nodes[n].Parent = NIL THEN 0 ELSE 1 + Depth(nodes[n].Parent)

\* the j-th ancestor of node n (n itself for j = 0)
RECURSIVE Ancestor(_, _)
Ancestor(n, j) == IF j = 0 THEN n ELSE Ancestor(nodes[n].Parent, j - 1)

\* the other child of the parent of n
Sibling(n) ==
    IF nodes[nodes[n].Parent].Left = n
    THEN nodes[nodes[n].Parent].Right
    ELSE nodes[nodes[n].Parent].Left

\* the leaves below node n, left to right
RECURSIVE LeafIds(_)
LeafIds(n) ==
    IF nodes[n].Left = NIL /\ nodes[n].Right = NIL THEN <<n>>
    ELSE LeafIds(nodes[n].Left) \o LeafIds(nodes[n].Right)

\* the lowest index of a block equal to data
FirstIndex(data) ==
    CHOOSE j \in 1..Len(blocks) :
        blocks[j] = data /\ \A i \in 1..(j - 1) : blocks[i] # data

\* some leaf of the tree has the digest of data
IsLeafHash(data) == \E n \in Leaves(nodes) : Bytes(heap, nodes[n].Hash) = hash(data)

---------------------------------------------------------------------------
(* Claims *)

\* C1: round trip.  For a tree built by New from n >= 1 blocks and every
\* block d of the input, GetAuditPath(d) returns a nil error and a non-nil
\* path, and IsValid(d, root.Hash) on that path returns true.
C1_RoundTrip ==
    /\ (last.op = "GetAuditPath" /\ last.data \in Range(blocks))
          => /\ err = "nil"
             /\ ~ap.isnil
             /\ IsValidRun(heap, ap, last.data, RootHash).ret = "true"
    /\ (/\ last.op = "IsValid"
        /\ prov.kind = "returned"
        /\ last.data = prov.data
        /\ last.rootHash = RootHash) => valid = "true"

\* a three-block tree, the path of a block at depth two verified
C1_Witness ==
    /\ last.op = "IsValid"
    /\ prov.kind = "returned"
    /\ last.data = prov.data
    /\ last.rootHash = RootHash
    /\ Len(blocks) = 3
    /\ Len(ap.Path) = 2
    /\ valid = "true"

C3_TamperedInvalid ==
    (/\ last.op = "IsValid"
     /\ prov.kind = "tampered"
     /\ last.data = prov.data
     /\ last.rootHash = RootHash) => valid = "false"

\* a two-entry path with one entry replaced, verified against the root
C3_Witness ==
    /\ last.op = "IsValid"
    /\ prov.kind = "tampered"
    /\ last.data = prov.data
    /\ last.rootHash = RootHash
    /\ Len(ap.Path) = 2
    /\ valid = "false"

\* C4: inclusion.  Whenever IsValid(data, root.Hash) returns true, for any
\* AuditPath and any data, the digest of data is the digest of a leaf.
C4_Inclusion ==
    (last.op = "IsValid" /\ last.rootHash = RootHash /\ valid = "true")
        => IsLeafHash(last.data)

\* C5: absence.  GetAuditPath(data) returns a nil path and an error when
\* no leaf has the digest of data (also when an internal node has it), and
\* the failed call leaves the tree as it was.
C5_Absence ==
    [][(last'.op = "GetAuditPath" /\ ~IsLeafHash(last'.data))
          => /\ ap'.isnil
             /\ err' = "error"
             /\ mt' = mt
             /\ nodes' = nodes
             /\ TreeHeap' = TreeHeap]_vars

\* a failed call for data whose digest is the digest of an internal node
C5_Witness ==
    /\ last.op = "GetAuditPath"
    /\ err = "error"
    /\ ap.isnil
    /\ \E n \in Internal(nodes) : Bytes(heap, nodes[n].Hash) = hash(last.data)

\* C6: on success GetAuditPath returns a non-nil path with one entry per
\* proper ancestor of the found leaf, leaf to root: entry i is the digest of
\* the sibling of the i-th node of the walk, tagged right when that node is
\* a left child and left otherwise; Path and Order have the same length; a
\* single-block tree yields the empty, non-nil path.
C6_PathShape ==
    (last.op = "GetAuditPath" /\ err = "nil") =>
        /\ ~ap.isnil
        /\ Len(ap.Path) = Depth(last.node)
        /\ Len(ap.Order) = Len(ap.Path)
        /\ \A j \in 1..Len(ap.Path) :
              LET w == Ancestor(last.node, j - 1) IN
              /\ Bytes(heap, ap.Path[j]) = Bytes(heap, nodes[Sibling(w)].Hash)
              /\ ap.Order[j] = IF nodes[nodes[w].Parent].Left = w THEN right ELSE left
        /\ Len(blocks) = 1 => ap = EmptyAP

\* the path of the second of three blocks: sibling on the left, then right
C6_Witness ==
    /\ last.op = "GetAuditPath"
    /\ err = "nil"
    /\ Len(blocks) = 3
    /\ ap.Order = <<left, right>>

\* C7: IsValid on a nil AuditPath returns false whatever data and rootHash
\* are, also when rootHash is the digest of data, where the empty non-nil
\* AuditPath returns true.
C7_NilPathInvalid ==
    last.op = "IsValid" =>
        /\ ap.isnil => valid = "false"
        /\ (~ap.isnil /\ Len(ap.Path) = 0 /\ last.rootHash = hash(last.data))
              => valid = "true"

\* a nil path checked against the digest of the data itself
C7_Witness ==
    /\ last.op = "IsValid"
    /\ ap.isnil
    /\ last.rootHash = hash(last.data)
    /\ valid = "false"

\* C8: New with zero blocks returns one node with nil Left, Right and
\* Parent whose Hash is the digest of the empty byte string.
C8_EmptyTree ==
    (mt # NIL /\ Len(blocks) = 0) =>
        /\ Len(nodes) = 1
        /\ nodes[mt].Left = NIL
        /\ nodes[mt].Right = NIL
        /\ nodes[mt].Parent = NIL
        /\ RootHash = hash(<<>>)

\* New was called with no block
C8_Witness == mt # NIL /\ Len(blocks) = 0 /\ last.op = "New"

\* C10: IsValid returns a boolean, never aborting, for every AuditPath,
\* also when Path and Order differ in length or Order holds another value.
C10_IsValidTotal == last.op = "IsValid" => valid \in {"true", "false"}

\* C9: read-only queries.  After New has returned, no step of any
\* interleaving of GetAuditPath, IsValid, Pretty and PrettyString calls
\* changes the Hash, Left, Right or Parent of a node: the tree handle, the
\* node graph and the arrays behind the digests stay as New left them.
C9_QueriesReadOnly ==
    [][mt # NIL => (mt' = mt /\ nodes' = nodes /\ TreeHeap' = TreeHeap)]_vars

\* one goroutine inside the loop of IsValid on a path that aliases the
\* digests of the tree, another inside the loop of GetAuditPath, after a
\* rendering of the tree
C9_Witness ==
    /\ mt # NIL
    /\ procs[1].pc = "verify"
    /\ procs[1].i = 2
    /\ procs[1].ap.Order[1] = left
    /\ procs[2].pc = "walk"
    /\ Len(procs[2].ap.Path) = 1
    /\ drawn.ok
    /\ Len(drawn.lines) > 1

\* C11: Pretty returns no line, and PrettyString the empty string, without
\* failing, whenever the tree handle is nil or nodeWidth is below 1,
\* whatever the other argument is.
C11_EmptyRendering ==
    (Rendered /\ (mt = NIL \/ last.nodeWidth < 1))
        => (drawn.ok /\ drawn.lines = <<>> /\ drawn.text = <<>>)

\* PrettyString with width 0 on a tree of several nodes
C11_Witness ==
    /\ last.op = "PrettyString"
    /\ mt # NIL
    /\ Len(nodes) > 1
    /\ last.nodeWidth = 0
    /\ drawn.text = <<>>

\* C12: on a tree built from a single block, for every nodeWidth from 1 to
\* the length of the hexadecimal digest, Pretty returns exactly one line,
\* the first nodeWidth characters of the hexadecimal root hash.
C12_SingleBlock ==
    (last.op = "Pretty" /\ Len(blocks) = 1 /\ last.nodeWidth \in 1..(2 * HashLen))
        => (drawn.ok /\ drawn.lines = <<Lab(RootHash, last.nodeWidth)>>)

\* C13: Pretty on the trees of 2, 3, 4 and 7 blocks, at nodeWidth 2, 3, 4
\* and 2, returns exactly the lines of the fixtures of the test: labels,
\* branches and spaces at the fixture's rows and columns, the leftmost leaf
\* at column 0 of the last line, no trailing space.
C13_Fixtures ==
    last.op = "Pretty" =>
        /\ (blocks = GoBlocks(2) /\ last.nodeWidth = 2)
              => (drawn.ok /\ drawn.lines = ab_2)
        /\ (blocks = GoBlocks(3) /\ last.nodeWidth = 3)
              => (drawn.ok /\ drawn.lines = abc_3)
        /\ (blocks = GoBlocks(4) /\ last.nodeWidth = 4)
              => (drawn.ok /\ drawn.lines = abcd_4)
        /\ (blocks = GoBlocks(7) /\ last.nodeWidth = 2)
              => (drawn.ok /\ drawn.lines = abcdefg_2)

\* the tree of 7 blocks rendered at width 2: 19 lines
C13_Witness ==
    /\ last.op = "Pretty"
    /\ blocks = GoBlocks(7)
    /\ last.nodeWidth = 2
    /\ Len(drawn.lines) = 19
    /\ drawn.lines[19][1] = Lab(aHash, 2)[1]

\* C14: root package round trip.  For a tree built by NewMerkleTree from
\* one block or more and every block d of the input, GetProof(d) returns no
\* error and a proof that VerifyProof accepts against Root.Hash, nil for a
\* single block and non-nil for more; for data that is not a block GetProof
\* returns an error and a nil proof, which VerifyProof rejects.
C14_RootRoundTrip ==
    rp.op = "VerifyProof" =>
        IF rp.query \in Range(rp.data)
        THEN /\ rp.err = "nil"
             /\ rp.valid = "true"
             /\ rp.psnil <=> Len(rp.data) = 1
        ELSE /\ rp.err = "error"
             /\ rp.psnil
             /\ rp.valid = "false"

\* C15, as claimed: there is an input of one block or more on which the
\* tree of NewMerkleTree and the tree of New differ in shape or in a hash
\* (looked for once a tree has been built).
C15_BuildersDiffer ==
    rp.pc = "built" =>
        \E data \in BuilderInputs :
            /\ Len(data) >= 1
            /\ LET f == Fold(LeafNodes(<<>>, data), [k \in 1..Len(data) |-> k])
                   t == NewTree(data)
               IN  RootShape(f.nodes, f.root) # BinaryShape(t.nodes, t.heap, t.root)

\* C15, amended: on every input of one block or more the tree NewMerkleTree
\* has built and the tree New builds from the same blocks have the same
\* shape and the same hash at every node.
C15_BuildersAgree ==
    (rp.pc = "built" /\ Len(rp.data) >= 1) =>
        LET t == NewTree(rp.data)
        IN  RootShape(rp.nodes, rp.root) = BinaryShape(t.nodes, t.heap, t.root)

\* a tree of five different blocks: the fifth is promoted twice
C15_Witness ==
    /\ rp.pc = "built"
    /\ rp.data = GoBlocks(5)
    /\ rp.nodes[rp.root].Right = 5
    /\ rp.nodes[5].Left = NIL

\* C18: NewMerkleTree terminates and returns a tree with a non-nil Root for
\* every finite sequence of blocks, the empty one included.
C18_BuilderTerminates ==
    (rp.pc = "build") ~> (rp.pc = "built" /\ rp.root # NIL)

\* C16: structure of every tree built by New from n >= 1 blocks.  A node
\* has no child or both; a child's Parent is the node holding it; the
\* root's Parent is nil; an internal node's Hash is H(Left.Hash ++
\* Right.Hash); there are exactly n leaves, whose hashes read left to right
\* are H(blocks[0]), ..., H(blocks[n-1]).
C16_Structure ==
    (mt # NIL /\ Len(blocks) >= 1) =>
        /\ nodes[mt].Parent = NIL
        /\ \A n \in 1..Len(nodes) :
              /\ nodes[n].Left = NIL <=> nodes[n].Right = NIL
              /\ nodes[n].Left # NIL =>
                    /\ nodes[n].Left # nodes[n].Right
                    /\ nodes[nodes[n].Left].Parent = n
                    /\ nodes[nodes[n].Right].Parent = n
                    /\ Bytes(heap, nodes[n].Hash) = hash(ChildCat(n))
              /\ nodes[n].Parent # NIL =>
                    n \in {nodes[nodes[n].Parent].Left, nodes[nodes[n].Parent].Right}
              /\ n # mt => nodes[n].Parent # NIL
        /\ Len(LeafIds(mt)) = Len(blocks)
        /\ Cardinality(Leaves(nodes)) = Len(blocks)
        /\ LeafHashes(mt) = [j \in 1..Len(blocks) |-> hash(blocks[j])]

\* a tree of three blocks, five nodes, after a query on it
C16_Witness ==
    /\ mt # NIL
    /\ Len(blocks) = 3
    /\ Len(nodes) = 5
    /\ Cardinality(Internal(nodes)) = 2
    /\ last.op = "IsValid"

\* C17: first match.  When blocks of the input are equal to data,
\* GetAuditPath(data) returns the audit path of the leftmost such leaf, the
\* one of lowest input index, and that path verifies against the root hash.
C17_FirstMatch ==
    (last.op = "GetAuditPath" /\ last.data \in Range(blocks)) =>
        LET first == LeafIds(mt)[FirstIndex(last.data)] IN
        /\ err = "nil"
        /\ last.node = first
        /\ Len(ap.Path) = Depth(first)
        /\ Len(ap.Order) = Depth(first)
        /\ \A j \in 1..Depth(first) :
              LET w == Ancestor(first, j - 1) IN
              /\ Bytes(heap, ap.Path[j]) = Bytes(heap, nodes[Sibling(w)].Hash)
              /\ ap.Order[j] = IF nodes[nodes[w].Parent].Left = w THEN right ELSE left
        /\ IsValidRun(heap, ap, last.data, RootHash).ret = "true"

\* the first and the third of three blocks are equal to data: the path
\* returned has the two entries of the first leaf, not the one of the third
C17_Witness ==
    /\ last.op = "GetAuditPath"
    /\ Len(blocks) = 3
    /\ blocks[1] = last.data
    /\ blocks[3] = last.data
    /\ blocks[2] # last.data
    /\ ap.Order = <<right, right>>

\* the bytes of the entries of the caller's path
PathBytes == [j \in 1..Len(ap.Path) |-> Bytes(heap, ap.Path[j])]

\* C19: the path GetAuditPath returns shares no storage with the tree:
\* overwriting in place the bytes of a returned Path entry leaves the Hash
\* of every node of the tree, and the node graph, unchanged.
C19_NoSharedStorage ==
    [][last'.op = "Overwrite" => (nodes' = nodes /\ TreeHeap' = TreeHeap)]_vars

\* C20: IsValid leaves the AuditPath it is called on unchanged: the bytes
\* of every Path entry and every Order value are the same after the call as
\* before it, also when the entries are consecutive sub-slices of one
\* buffer, so that a second call with the same data and root hash returns
\* what the first returned.
C20_PathUnchanged ==
    [][last'.op = "IsValid" =>
          /\ ap' = ap
          /\ PathBytes' = PathBytes
          /\ (last.op = "IsValid" /\ last'.data = last.data
                 /\ last'.rootHash = last.rootHash) => valid' = valid]_vars

\* C21 as stated: on the tree New builds from zero blocks GetAuditPath
\* returns a nil path and a non-nil error for every data, the empty byte
\* string included.
C21_EmptyTreeProvesNothing ==
    (last.op = "GetAuditPath" /\ Len(blocks) = 0) =>
        (ap.isnil /\ err = "error")

\* C21 amended: the tree New builds from zero blocks is the tree New builds
\* from the single empty block: one node whose Hash is the digest of the
\* empty byte string.  On either, GetAuditPath returns the empty non-nil
\* path and a nil error for the empty byte string, and a nil path and a
\* non-nil error for every other data.
C21_EmptyTreeProvesEmptyOnly ==
    (mt # NIL /\ blocks \in {<<>>, << <<>> >>}) =>
        /\ Len(nodes) = 1
        /\ LeafMatch(nodes, heap, mt, hash(<<>>))
        /\ last.op = "GetAuditPath" =>
              IF last.data = <<>>
              THEN ap = EmptyAP /\ err = "nil" /\ last.node = mt
              ELSE ap.isnil /\ err = "error"

\* the empty byte string was looked up in the tree of zero blocks and found
C21_Witness ==
    /\ last.op = "GetAuditPath"
    /\ Len(blocks) = 0
    /\ last.data = <<>>
    /\ ~ap.isnil
    /\ err = "nil"

====
